---- MODULE Spec2Model ----
(***************************************************************************)
(* Model of multinomial_power_analysis.ipynb: the test statistic           *)
(* sum_of_relative_squared_differences(x, n, p) and the Monte Carlo power   *)
(* estimator power(p, n, alpha, p_null, nsim).                              *)
(*                                                                         *)
(* Numbers.  A float is modelled as an exact extended rational <<a, b>>     *)
(* with b >= 0 in lowest terms: b > 0 is the finite value a/b, <<1,0>> is   *)
(* +inf, <<-1,0>> is -inf and <<0,0>> is NaN, with numpy's rules for        *)
(* division by zero (x/0 = +-inf, 0/0 = NaN; a warning, never an            *)
(* exception).  Values and decisions are computed in this exact            *)
(* arithmetic.  Rounding is modelled separately, for the properties of the *)
(* statistic that depend on it (above all the equality of two orders of    *)
(* summation): the                                                         *)
(* fl_ operators round every operation to the nearest binary float of      *)
(* SignificandBits bits, ties to even, as IEEE 754 does with 53 bits.       *)
(***************************************************************************)
EXTENDS Integers, Sequences, FiniteSets, TLC

\* ------------------------------------------------------------------ bounds
\* Largest number of categories of a direct call of the test statistic.
MaxK == 4
\* Largest sample size n of a direct call of the test statistic.
MaxN == 4
\* Largest sample size n of a call of power.
MaxPowerN == 2
\* Largest number of simulated trials nsim of a call of power.
MaxNsim == 2
\* Largest sample size of the power curve.
MaxCurveN == 5
\* Bits of the significand of the rounded arithmetic (53 in a double, which
\* is beyond the integers of the model checker).
SignificandBits == 6

\* ------------------------------------------------------- extended rationals
NaN == <<0, 0>>
Inf == <<1, 0>>
Zero == <<0, 1>>
One == <<1, 1>>

Abs(i) == IF i < 0 THEN -i ELSE i

Sign(i) == IF i < 0 THEN -1 ELSE IF i > 0 THEN 1 ELSE 0

RECURSIVE GCD(_, _)
GCD(a, b) == IF b = 0 THEN a ELSE GCD(b, a % b)

\* The value a/b in lowest terms with a non-negative denominator.
Norm(a, b) ==
    IF b = 0 THEN <<Sign(a), 0>>
    ELSE LET s == IF b < 0 THEN -1 ELSE 1
             g == GCD(Abs(a), Abs(b))
         IN  <<(s * a) \div g, (s * b) \div g>>

FInt(i) == <<i, 1>>

IsNaN(a) == a = NaN

IsFinite(a) == a[2] > 0

FNeg(a) == <<-a[1], a[2]>>

FAdd(a, b) ==
    IF a[2] = 0 /\ b[2] = 0 THEN (IF a[1] = b[1] THEN a ELSE NaN)
    ELSE IF a[2] = 0 THEN a
    ELSE IF b[2] = 0 THEN b
    ELSE LET g == GCD(a[2], b[2])
         IN  Norm(a[1] * (b[2] \div g) + b[1] * (a[2] \div g), (a[2] \div g) * b[2])

FSub(a, b) == FAdd(a, FNeg(b))

FMul(a, b) == Norm(a[1] * b[1], a[2] * b[2])

\* numpy true division: x/0 is +-inf, 0/0 is NaN, x/inf is 0.
FDiv(a, b) == Norm(a[1] * b[2], a[2] * b[1])

\* a < b as IEEE compares: every comparison with NaN is false.
FLt(a, b) ==
    IF IsNaN(a) \/ IsNaN(b) THEN FALSE
    ELSE IF a[2] = 0 /\ b[2] = 0 THEN a[1] < b[1]
    ELSE IF a[2] = 0 THEN a[1] < 0
    ELSE IF b[2] = 0 THEN b[1] > 0
    ELSE a[1] * b[2] < b[1] * a[2]

\* np.sum of a one-dimensional array.
RECURSIVE FSum(_)
FSum(v) == IF v = <<>> THEN Zero ELSE FAdd(FSum(SubSeq(v, 1, Len(v) - 1)), v[Len(v)])

\* ------------------------------------------------------------ numpy shapes
\* Two one-dimensional shapes broadcast when they are equal or one is 1;
\* otherwise the elementwise operation raises ValueError.
Broadcastable(a, b) == a = b \/ a = 1 \/ b = 1

BroadcastLen(a, b) == IF a >= b THEN a ELSE b

\* Element i of v seen through broadcasting to a longer shape.
At(v, i) == IF Len(v) = 1 THEN v[1] ELSE v[i]

\* ------------------------------------------------------- the test statistic
\* expect = p: the sample size is left out of the expected counts.
expect_without_n(n, p) == [i \in 1..Len(p) |-> p[i]]

\* expect = p * n
expect(n, p) == [i \in 1..Len(p) |-> FMul(p[i], FInt(n))]

\* (expect - x) / expect: the difference is not squared.
relative_differences_unsquared(x, n, p) ==
    LET e == expect(n, p)
    IN  [i \in 1..BroadcastLen(Len(e), Len(x)) |->
            FDiv(FSub(At(e, i), FInt(At(x, i))), At(e, i))]

\* (expect - x)**2 / expect[0]: every term is divided by the first expected count.
relative_squared_differences_first(x, n, p) ==
    LET e == expect(n, p)
    IN  [i \in 1..BroadcastLen(Len(e), Len(x)) |->
            LET d == FSub(At(e, i), FInt(At(x, i)))
            IN  FDiv(FMul(d, d), e[1])]

\* (expect - x)**2 / x: the squared difference is divided by the observed count.
relative_squared_differences_by_x(x, n, p) ==
    LET e == expect(n, p)
    IN  [i \in 1..BroadcastLen(Len(e), Len(x)) |->
            LET d == FSub(At(e, i), FInt(At(x, i)))
            IN  FDiv(FMul(d, d), FInt(At(x, i)))]

\* np.where(expect > 0, (expect - x)**2 / expect, 0): categories with a zero
\* expected count are guarded and contribute nothing.
relative_squared_differences_guarded(x, n, p) ==
    LET e == expect(n, p)
    IN  [i \in 1..BroadcastLen(Len(e), Len(x)) |->
            LET d == FSub(At(e, i), FInt(At(x, i)))
            IN  IF At(e, i) = Zero THEN Zero ELSE FDiv(FMul(d, d), At(e, i))]

\* (expect - x)**2 / expect, elementwise with broadcasting.
relative_squared_differences(x, n, p) ==
    LET e == expect(n, p)
    IN  [i \in 1..BroadcastLen(Len(e), Len(x)) |->
            LET d == FSub(At(e, i), FInt(At(x, i)))
            IN  FDiv(FMul(d, d), At(e, i))]

sum_of_relative_squared_differences(x, n, p) ==
    FSum(relative_squared_differences(x, n, p))

\* --------------------------------------------------------- rounded arithmetic
Pow2(i) == 2 ^ i

\* num / den divided by 2^e, as a pair <<numerator, denominator>>.
Scaled(num, den, e) ==
    IF e >= 0 THEN <<num, den * Pow2(e)>> ELSE <<num * Pow2(-e), den>>

\* The number of bits of a positive integer below 2^31, by bisection.
BitLen(i) ==
    LET a == IF i >= 2 ^ 16 THEN 16 ELSE 0
        b == IF i \div 2 ^ a >= 2 ^ 8 THEN a + 8 ELSE a
        c == IF i \div 2 ^ b >= 2 ^ 4 THEN b + 4 ELSE b
        d == IF i \div 2 ^ c >= 2 ^ 2 THEN c + 2 ELSE c
        e == IF i \div 2 ^ d >= 2 THEN d + 1 ELSE d
    IN  e + 1

\* The exponent e that puts num / den / 2^e into [2^(bits-1), 2^bits): the bit
\* lengths of num and den leave two candidates, e and e + 1.
Exponent(num, den) ==
    LET e == BitLen(num) - BitLen(den) - SignificandBits
        v == Scaled(num, den, e)
    IN  IF v[1] \div v[2] >= Pow2(SignificandBits) THEN e + 1 ELSE e

\* The float nearest to a, ties to even; zero, infinities and NaN are kept.
Round(a) ==
    IF a[2] = 0 \/ a[1] = 0 THEN a
    ELSE LET e == Exponent(Abs(a[1]), a[2])
             v == Scaled(Abs(a[1]), a[2], e)
             m == v[1] \div v[2]
             r == 2 * (v[1] % v[2])
             up == r > v[2] \/ (r = v[2] /\ m % 2 = 1)
             mm == IF up THEN m + 1 ELSE m
         IN  IF e >= 0 THEN Norm(Sign(a[1]) * mm * Pow2(e), 1)
             ELSE Norm(Sign(a[1]) * mm, Pow2(-e))

\* (expect - x)**2 / expect with p stored as floats and every operation rounded.
fl_relative_squared_differences(x, n, p) ==
    [i \in 1..Len(p) |->
        LET e == Round(FMul(Round(p[i]), FInt(n)))
            d == Round(FSub(e, FInt(x[i])))
        IN  Round(FDiv(Round(FMul(d, d)), e))]

\* np.sum of fewer than 8 floats: added left to right, each partial sum rounded.
RECURSIVE fl_sum(_)
fl_sum(v) ==
    IF v = <<>> THEN Zero
    ELSE Round(FAdd(fl_sum(SubSeq(v, 1, Len(v) - 1)), v[Len(v)]))

\* sum_of_relative_squared_differences as the floats compute it, for x and p
\* of the same length.
fl_sum_of_relative_squared_differences(x, n, p) ==
    fl_sum(fl_relative_squared_differences(x, n, p))

\* ------------------------------------------------- the chi-squared collaborator
\* scipy.stats.chi2.cdf is a library primitive.  It is modelled by its
\* quantile table: tail levels in thousandths, and for each level and each
\* degrees of freedom the critical value (in ten-thousandths) above which the
\* upper tail probability is below that level.  Level 1000 has critical value
\* 0 (the tail is below 1 exactly when the statistic is above 0); level 0 is
\* reached only at +inf.
Levels == {0, 10, 50, 100, 500, 1000}

\* The table covers 1, 2 and 3 degrees of freedom (the tuples below).
Chi2Crit(level, dof) ==
    CASE level = 1000 -> Zero
      [] level = 0    -> Inf
      [] level = 500  -> Norm(<<4549, 13863, 23660>>[dof], 10000)
      [] level = 100  -> Norm(<<27055, 46052, 62514>>[dof], 10000)
      [] level = 50   -> Norm(<<38415, 59915, 78147>>[dof], 10000)
      [] level = 10   -> Norm(<<66349, 92103, 113449>>[dof], 10000)

SetMax(S) == CHOOSE m \in S : \A o \in S : o <= m

\* The upper tail probability of statistic s, resolved to the table: the
\* largest tabulated level that the true tail probability is not below.
Chi2TailLevel(s, dof) ==
    SetMax({l \in Levels : ~FLt(Chi2Crit(l, dof), s)})

\* sp.stats.chi2.cdf(s, dof): NaN for a NaN statistic and for dof <= 0
\* (invalid shape parameter), 0 below the support, 1 at +inf.
chi2_cdf(s, dof) ==
    IF IsNaN(s) \/ dof < 1 THEN NaN
    ELSE IF FLt(s, Zero) THEN Zero
    ELSE FSub(One, Norm(Chi2TailLevel(s, dof), 1000))

\* pvalue = 1 - sp.stats.chi2.cdf(statistic, df)
pvalue_of(s, dof) == FSub(One, chi2_cdf(s, dof))

\* ------------------------------------------------------------------ inputs
None == <<>>

\* The uniform distribution over kk categories.
Uniform(kk) == [i \in 1..kk |-> Norm(1, kk)]

\* A valid distribution with pairwise different entries: i / (1 + ... + kk).
Skew(kk) == [i \in 1..kk |-> Norm(2 * i, kk * (kk + 1))]

\* A distribution whose first category has probability zero.
ZeroFirst(kk) == [i \in 1..kk |-> IF i = 1 THEN Zero ELSE Norm(1, kk - 1)]

\* A vector that does not sum to 1: every entry is 2/5.
Unnorm(kk) == [i \in 1..kk |-> Norm(2, 5)]

\* p_sim of the notebook: [0.27, 0.23, 0.25, 0.25].
p_sim == <<Norm(27, 100), Norm(23, 100), Norm(1, 4), Norm(1, 4)>>

ProbVectors(kk) ==
    {Uniform(kk), Skew(kk), ZeroFirst(kk), Unnorm(kk)}
        \cup (IF kk = 4 THEN {p_sim} ELSE {})

\* True distributions handed to power.
PowerPs == {Uniform(1), Uniform(2), Skew(2), ZeroFirst(2), Uniform(3), Skew(3)}

\* Null distributions handed to power: absent, a vector of one entry, or any
\* vector of 2 or 3 entries.
PowerNulls == {None, Uniform(1)} \cup ProbVectors(2) \cup ProbVectors(3)

\* True distributions of the power curve.
CurvePs == {Uniform(2), Skew(2), Uniform(3), Skew(3), Uniform(4)}

\* Significance levels of the power curve.
CurveAlphas == {Norm(1, 20), Norm(1, 2)}

\* Significance levels handed to power.
Alphas == {Norm(1, 20), Norm(1, 2), One}

IntSum(v) == FSum([i \in 1..Len(v) |-> FInt(v[i])])[1]

\* CategoryCounts: kk non-negative counts summing to nn.
CategoryCounts(kk, nn) == {c \in [1..kk -> 0..nn] : IntSum(c) = nn}

\* The count vectors sp.stats.multinomial.rvs(nn, pp) can return: counts
\* summing to nn, zero wherever the probability is zero.
Support(nn, pp) ==
    {c \in CategoryCounts(Len(pp), nn) :
        \A i \in 1..Len(pp) : pp[i] = Zero => c[i] = 0}

\* ------------------------------------------------------------------- state
VARIABLES pc, fn, x, n, p, alpha, p_null_arg, p_null, nsim, k, df,
          x_sim, statistic_sim, pvalue_sim, ret, p_reject

vars == <<pc, fn, x, n, p, alpha, p_null_arg, p_null, nsim, k, df,
          x_sim, statistic_sim, pvalue_sim, ret, p_reject>>

Init ==
    /\ pc = "idle"
    /\ fn = "none"
    /\ x = <<>>
    /\ n = 0
    /\ p = <<>>
    /\ alpha = Zero
    /\ p_null_arg = None
    /\ p_null = <<>>
    /\ nsim = 0
    /\ k = 0
    /\ df = 0
    /\ x_sim = <<>>
    /\ statistic_sim = <<>>
    /\ pvalue_sim = <<>>
    /\ ret = <<>>
    /\ p_reject = <<>>

\* A notebook cell calls sum_of_relative_squared_differences(x, n, p) on the
\* counts x of n draws and prints the value.
CallStatistic ==
    /\ pc = "idle"
    /\ \E kk \in 1..MaxK :
         \E nn \in 1..MaxN, pp \in ProbVectors(kk) :
          \E xx \in CategoryCounts(kk, nn) :
            /\ x' = xx
            /\ n' = nn
            /\ p' = pp
            /\ ret' = sum_of_relative_squared_differences(xx, nn, pp)
    /\ fn' = "statistic"
    /\ pc' = "returned"
    /\ UNCHANGED <<p_reject, alpha, p_null_arg, p_null, nsim, k, df, x_sim,
                   statistic_sim, pvalue_sim>>

\* p_null = np.ones_like(p): the division by k is left out.
default_p_null_ones(pp, kk) == [i \in 1..Len(pp) |-> One]

\* p_null = np.ones_like(p) / k
default_p_null(pp, kk) == [i \in 1..Len(pp) |-> FDiv(One, FInt(kk))]

\* power(p, n, alpha, p_null, nsim): entry, k = p.shape[0], defaulting of p_null.
power ==
    /\ pc = "idle"
    /\ \E pp \in PowerPs, nn \in 1..MaxPowerN, aa \in Alphas,
          pn \in PowerNulls, ns \in 1..MaxNsim :
            /\ p' = pp
            /\ n' = nn
            /\ alpha' = aa
            /\ p_null_arg' = pn
            /\ nsim' = ns
            /\ k' = Len(pp)
            /\ p_null' = IF pn = None THEN default_p_null(pp, Len(pp)) ELSE pn
    /\ fn' = "power"
    /\ pc' = "rvs"
    /\ UNCHANGED <<p_reject, x, df, x_sim, statistic_sim, pvalue_sim, ret>>

\* x_sim = sp.stats.multinomial.rvs(n, p, size=nsim), one row per step.
multinomial_rvs ==
    /\ pc = "rvs"
    /\ Len(x_sim) < nsim
    /\ \E row \in Support(n, p) : x_sim' = Append(x_sim, row)
    /\ pc' = IF Len(x_sim) + 1 = nsim THEN "apply" ELSE "rvs"
    /\ UNCHANGED <<p_reject, fn, x, n, p, alpha, p_null_arg, p_null, nsim, k, df,
                   statistic_sim, pvalue_sim, ret>>

\* df = k - 1; statistic_sim = np.apply_along_axis(lambda y: ..., 1, x_sim).
\* A p_null whose length does not broadcast against a row raises ValueError.
apply_along_axis ==
    /\ pc = "apply"
    /\ df' = k - 1
    /\ IF Broadcastable(k, Len(p_null))
       THEN /\ statistic_sim' =
                 [t \in 1..Len(x_sim) |->
                     sum_of_relative_squared_differences(x_sim[t], n, p_null)]
            /\ pc' = "cdf"
       ELSE /\ statistic_sim' = statistic_sim
            /\ pc' = "ValueError"
    /\ UNCHANGED <<p_reject, fn, x, n, p, alpha, p_null_arg, p_null, nsim, k, x_sim,
                   pvalue_sim, ret>>

\* pvalue_sim = 1 - sp.stats.chi2.cdf(statistic_sim, df)
chi2_pvalues ==
    /\ pc = "cdf"
    /\ pvalue_sim' = [t \in 1..Len(statistic_sim) |-> pvalue_of(statistic_sim[t], df)]
    /\ pc' = "mean"
    /\ UNCHANGED <<p_reject, fn, x, n, p, alpha, p_null_arg, p_null, nsim, k, df, x_sim,
                   statistic_sim, ret>>

\* (pvalue_sim <= alpha): a p-value equal to alpha is rejected too.
rejected_or_equal(pv, aa) == FLt(pv, aa) \/ (~IsNaN(pv) /\ pv = aa)

\* ~(pvalue_sim >= alpha): a NaN p-value is rejected too.
rejected_unless_above(pv, aa) == ~FLt(aa, pv) /\ pv # aa

\* (pvalue_sim < alpha)
rejected(pv, aa) == FLt(pv, aa)

\* (pvalue_sim < alpha).mean()
rejection_rate(pvs, aa) ==
    FDiv(FInt(Cardinality({t \in 1..Len(pvs) : rejected(pvs[t], aa)})),
         FInt(Len(pvs)))

\* return (pvalue_sim < alpha).mean()
power_return ==
    /\ pc = "mean"
    /\ ret' = rejection_rate(pvalue_sim, alpha)
    /\ pc' = "returned"
    /\ UNCHANGED <<p_reject, fn, x, n, p, alpha, p_null_arg, p_null, nsim, k, df, x_sim,
                   statistic_sim, pvalue_sim>>

\* What power returns for given sample rows xs: lines 497-507 as one function.
power_on(xs, nn, aa, pn, kk) ==
    rejection_rate([t \in 1..Len(xs) |->
                       pvalue_of(sum_of_relative_squared_differences(xs[t], nn, pn),
                                 kk - 1)],
                   aa)

RECURSIVE Factorial(_)
Factorial(m) == IF m = 0 THEN 1 ELSE m * Factorial(m - 1)

RECURSIVE FPow(_, _)
FPow(a, e) == IF e = 0 THEN One ELSE FMul(a, FPow(a, e - 1))

RECURSIVE FProd(_)
FProd(v) == IF v = <<>> THEN One ELSE FMul(FProd(SubSeq(v, 1, Len(v) - 1)), v[Len(v)])

RECURSIVE IntProd(_)
IntProd(v) == IF v = <<>> THEN 1 ELSE IntProd(SubSeq(v, 1, Len(v) - 1)) * v[Len(v)]

\* The probability of the ordered draws alone: prod_i p_i^c_i, without the
\* number of orderings.
multinomial_pmf_no_coefficient(c, nn, pp) ==
    FProd([i \in 1..Len(pp) |-> FPow(pp[i], c[i])])

\* sp.stats.multinomial.pmf(c, nn, pp): the probability with which
\* sp.stats.multinomial.rvs(nn, pp) returns the count vector c.
multinomial_pmf(c, nn, pp) ==
    FMul(FInt(Factorial(nn) \div IntProd([i \in 1..Len(pp) |-> Factorial(c[i])])),
         FProd([i \in 1..Len(pp) |-> FPow(pp[i], c[i])]))

RECURSIVE pmf_total(_, _, _)
pmf_total(S, nn, pp) ==
    IF S = {} THEN Zero
    ELSE LET c == CHOOSE c \in S : TRUE
         IN  FAdd(multinomial_pmf(c, nn, pp), pmf_total(S \ {c}, nn, pp))

\* The trial is rejected with k degrees of freedom in place of k - 1.
trial_rejected_df_k(c, nn, aa, pn, kk) ==
    rejected(pvalue_of(sum_of_relative_squared_differences(c, nn, pn), kk), aa)

\* Lines 497-507 for one sampled row c: its p-value is below alpha.
trial_rejected(c, nn, aa, pn, kk) ==
    rejected(pvalue_of(sum_of_relative_squared_differences(c, nn, pn), kk - 1), aa)

\* The probability that one trial of power(pp, nn, aa, pn) is rejected: the
\* expected value of what power returns, for every nsim.
trial_reject_probability(pp, nn, aa, pn) ==
    pmf_total({c \in Support(nn, pp) : trial_rejected(c, nn, aa, pn, Len(pp))}, nn, pp)

\* p_reject = [power(p_sim, n, alpha=alpha, nsim=nsim) for n in nn]: the power
\* curve over the sample sizes 1..MaxCurveN, each entry taken at its expected
\* value (the Monte Carlo error of a finite nsim is left out).
power_curve ==
    /\ pc = "idle"
    /\ \E pp \in CurvePs, aa \in CurveAlphas :
        \E pn \in {None, Skew(Len(pp))} :
         LET null == IF pn = None THEN default_p_null(pp, Len(pp)) ELSE pn
         IN  /\ p' = pp
             /\ alpha' = aa
             /\ p_null_arg' = pn
             /\ p_null' = null
             /\ k' = Len(pp)
             /\ p_reject' = [m \in 1..MaxCurveN |->
                                trial_reject_probability(pp, m, aa, null)]
    /\ fn' = "power_curve"
    /\ pc' = "returned"
    /\ UNCHANGED <<x, n, nsim, df, x_sim, statistic_sim, pvalue_sim, ret>>

Next ==
    \/ CallStatistic
    \/ power_curve
    \/ power
    \/ multinomial_rvs
    \/ apply_along_axis
    \/ chi2_pvalues
    \/ power_return

Spec == Init /\ [][Next]_vars

\* ================================================================== claims
\* p sums to 1.
SumsToOne(pp) == FSum(pp) = One

\* The expected count p_i * n of category i, as the claims state it.
ExpectedCount(nn, pp, i) == FMul(pp[i], FInt(nn))

\* Every expected count p_i * n is positive.
AllExpectPositive(nn, pp) == \A i \in 1..Len(pp) : FLt(Zero, ExpectedCount(nn, pp, i))

\* A direct call of the test statistic has returned.
StatisticReturned == fn = "statistic" /\ pc = "returned"

\* sum_i x_i^2 / (p_i n)  -  2 sum_i x_i  +  sum_i p_i n: the claimed sum with
\* its square multiplied out.
ExpandedStatistic(xx, nn, pp) ==
    FAdd(FSub(FSum([i \in 1..Len(xx) |->
                       FDiv(FInt(xx[i] * xx[i]), FMul(pp[i], FInt(nn)))]),
              FInt(2 * IntSum(xx))),
         FMul(FSum(pp), FInt(nn)))

\* C1: whenever every p_i * n > 0, the value returned by
\* sum_of_relative_squared_differences(x, n, p) is sum_i (p_i n - x_i)^2 / (p_i n);
\* it is 2 for x = [1,1,0,0] and 6 for x = [2,0,0,0] with n = 2 and p uniform
\* over 4 categories.
C1_StatisticFormula ==
    (StatisticReturned /\ AllExpectPositive(n, p)) =>
        /\ ret = ExpandedStatistic(x, n, p)
        /\ (x = <<1, 1, 0, 0>> /\ n = 2 /\ p = Uniform(4)) =>
              /\ ret = FInt(2)
              /\ fl_sum_of_relative_squared_differences(x, n, p) = FInt(2)
        /\ (x = <<2, 0, 0, 0>> /\ n = 2 /\ p = Uniform(4)) =>
              /\ ret = FInt(6)
              /\ fl_sum_of_relative_squared_differences(x, n, p) = FInt(6)

C1_Witness ==
    /\ StatisticReturned
    /\ x = <<2, 0, 0, 0>> /\ n = 2 /\ p = Uniform(4)
    /\ ret = FInt(6)

\* Every observed count equals its expected count.
MatchesExpectation(xx, nn, pp) ==
    \A i \in 1..Len(xx) : FInt(xx[i]) = ExpectedCount(nn, pp, i)

\* Every observed count equals its expected count as the floats compute it.
fl_MatchesExpectation(xx, nn, pp) ==
    \A i \in 1..Len(xx) : FInt(xx[i]) = Round(FMul(Round(pp[i]), FInt(nn)))

\* C4: whenever every p_i * n > 0, the statistic is 0 if every observed count
\* equals its expected count and strictly positive otherwise, in exact
\* arithmetic and, with the product p_i * n rounded, as the floats compute it.
C4_ZeroIffMatches ==
    (StatisticReturned /\ AllExpectPositive(n, p)) =>
        /\ MatchesExpectation(x, n, p) => ret = Zero
        /\ ~MatchesExpectation(x, n, p) => FLt(Zero, ret)
        /\ fl_MatchesExpectation(x, n, p) =>
              fl_sum_of_relative_squared_differences(x, n, p) = Zero
        /\ ~fl_MatchesExpectation(x, n, p) =>
              FLt(Zero, fl_sum_of_relative_squared_differences(x, n, p))

C4_Witness ==
    /\ StatisticReturned
    /\ x = <<1, 1, 1, 1>> /\ n = 4 /\ p = Uniform(4)
    /\ ret = Zero

\* The permutations of 1..kk, for every number of categories of a direct call.
CategoryPermutations ==
    [kk \in 1..MaxK |->
        {f \in [1..kk -> 1..kk] : \A i, j \in 1..kk : f[i] = f[j] => i = j}]

Permuted(v, f) == [i \in 1..Len(v) |-> v[f[i]]]

\* |a - b| for finite a and b.
FDist(a, b) == IF FLt(a, b) THEN FSub(b, a) ELSE FSub(a, b)

\* C5 as claimed: permuting the categories of x and of a valid p alike leaves
\* the value the function returns unchanged.
C5_PermutationInvariant ==
    (StatisticReturned /\ SumsToOne(p) /\ AllExpectPositive(n, p)) =>
        \A f \in CategoryPermutations[Len(x)] :
            /\ sum_of_relative_squared_differences(Permuted(x, f), n, Permuted(p, f)) = ret
            /\ fl_sum_of_relative_squared_differences(Permuted(x, f), n, Permuted(p, f))
                  = fl_sum_of_relative_squared_differences(x, n, p)

\* C5 as amended: permuting the categories of x and of a valid p alike leaves
\* the statistic unchanged in exact arithmetic.  As the floats compute it,
\* each term depends on its own category only, so the permuted call adds the
\* same terms in the permuted order, and the two sums agree to within the
\* rounding of the additions (a relative difference of at most 2 k units in
\* the last place), not always bit for bit.
C5_PermutationInvariantAmended ==
    (StatisticReturned /\ SumsToOne(p) /\ AllExpectPositive(n, p)) =>
        \A terms \in {fl_relative_squared_differences(x, n, p)} :
            /\ \A i \in 1..Len(x) :
                  fl_relative_squared_differences(<<x[i]>>, n, <<p[i]>>) = <<terms[i]>>
            /\ \A a \in {fl_sum(terms)}, f \in CategoryPermutations[Len(x)] :
                  /\ sum_of_relative_squared_differences(Permuted(x, f), n,
                                                         Permuted(p, f)) = ret
                  /\ \A b \in {fl_sum(Permuted(terms, f))} :
                        \/ b = a
                        \/ ~FLt(FMul(FInt(2 * Len(x)), a),
                                FMul(FInt(Pow2(SignificandBits)), FDist(a, b)))

C5_Witness ==
    /\ StatisticReturned
    /\ SumsToOne(p) /\ AllExpectPositive(n, p)
    /\ \E f \in CategoryPermutations[Len(x)] :
          /\ Permuted(x, f) # x
          /\ sum_of_relative_squared_differences(Permuted(x, f), n, Permuted(p, f)) = ret
          /\ fl_sum_of_relative_squared_differences(Permuted(x, f), n, Permuted(p, f))
                # fl_sum_of_relative_squared_differences(x, n, p)

\* C8: for p summing to 1 with every p_i * n > 0 the statistic is a
\* non-negative real: not NaN, not infinite, not negative, in exact arithmetic
\* and as the floats compute it.
C8_NonNegativeReal ==
    (StatisticReturned /\ SumsToOne(p) /\ AllExpectPositive(n, p)) =>
        /\ IsFinite(ret)
        /\ ~FLt(ret, Zero)
        /\ IsFinite(fl_sum_of_relative_squared_differences(x, n, p))
        /\ ~FLt(fl_sum_of_relative_squared_differences(x, n, p), Zero)

C8_Witness ==
    /\ StatisticReturned
    /\ SumsToOne(p) /\ AllExpectPositive(n, p)
    /\ \E i \in 1..Len(x) : x[i] = 0
    /\ \E i \in 1..Len(x) : FLt(ExpectedCount(n, p, i), FInt(x[i]))
    /\ FLt(Zero, ret)

\* A call of power has returned.
PowerReturned == fn = "power" /\ pc = "returned"

\* a < b between a p-value (finite or NaN) and a finite significance level.
StrictlyBelow(a, b) == IsFinite(a) /\ a[1] * b[2] < b[1] * a[2]

\* C2: power draws nsim count vectors from the multinomial of n and the true
\* p, scores each once against p_null, turns each statistic into a p-value
\* with len(p) - 1 degrees of freedom and returns the number of p-values
\* strictly below alpha divided by nsim, a value in [0, 1]; a p-value equal
\* to alpha is not counted.
C2_PowerIsRejectionFraction ==
    PowerReturned =>
        /\ Len(x_sim) = nsim /\ Len(statistic_sim) = nsim /\ Len(pvalue_sim) = nsim
        /\ \A t \in 1..nsim :
              /\ Len(x_sim[t]) = Len(p)
              /\ IntSum(x_sim[t]) = n
              /\ \A i \in 1..Len(p) : p[i] = Zero => x_sim[t][i] = 0
              /\ statistic_sim[t] =
                     sum_of_relative_squared_differences(x_sim[t], n, p_null)
              /\ pvalue_sim[t] = pvalue_of(statistic_sim[t], Len(p) - 1)
        /\ IsFinite(ret) /\ ~FLt(ret, Zero) /\ ~FLt(One, ret)
        /\ ret[1] * nsim =
              ret[2] * Cardinality({t \in 1..nsim : StrictlyBelow(pvalue_sim[t], alpha)})

C2_Witness ==
    /\ PowerReturned
    /\ p_null # p
    /\ nsim = 2
    /\ \E t \in 1..nsim : statistic_sim[t] = Zero /\ pvalue_sim[t] = alpha
    /\ \E t \in 1..nsim : StrictlyBelow(pvalue_sim[t], alpha)
    /\ ret = Norm(1, 2)

\* C3: without p_null every trial is scored against the uniform distribution
\* over len(p) categories, so power returns what it returns for that uniform
\* vector on the same samples; a supplied p_null is used unchanged.
C3_DefaultNullIsUniform ==
    (fn = "power") =>
        /\ p_null_arg = None =>
              /\ p_null = Uniform(Len(p))
              /\ pc = "returned" =>
                    ret = power_on(x_sim, n, alpha, Uniform(Len(p)), Len(p))
        /\ p_null_arg # None => p_null = p_null_arg

C3_Witness ==
    /\ PowerReturned
    /\ p_null_arg = None
    /\ p = Skew(3)
    /\ p_null = Uniform(3)
    /\ FLt(Zero, ret)

\* The malformed inputs named by the claim: probabilities not summing to 1, a
\* zero expected count, fewer than 2 categories.
Malformed(nn, pp) ==
    \/ ~SumsToOne(pp)
    \/ \E i \in 1..Len(pp) : ExpectedCount(nn, pp, i) = Zero
    \/ Len(pp) < 2

\* C9 as claimed: every malformed input surfaces as a NaN or an infinity in the
\* returned value, never as an error.
C9_MalformedGivesAnomaly ==
    /\ (StatisticReturned /\ Malformed(n, p)) => ~IsFinite(ret)
    /\ (fn = "power" /\ Len(p_null) = Len(p) /\ Malformed(n, p_null)) =>
          /\ pc # "ValueError"
          /\ pc = "returned" => ~IsFinite(ret)

\* Some category has expected count 0 and observed count 0 (a 0/0 term).
HasZeroOverZero(xx, nn, pp) ==
    \E i \in 1..Len(pp) : ExpectedCount(nn, pp, i) = Zero /\ xx[i] = 0

\* Some category has expected count 0.
HasZeroExpected(nn, pp) ==
    \E i \in 1..Len(pp) : ExpectedCount(nn, pp, i) = Zero

\* C9 as amended: neither function validates or raises.  The statistic returns
\* NaN when a category with expected count 0 has observed count 0, +inf when
\* every category with expected count 0 has a non-zero observed count, and an
\* ordinary non-negative number whenever every expected count is positive
\* (also when p does not sum to 1 or has a single entry).  power never
\* returns an anomaly: with a p_null of the length of p it always returns a
\* fraction in [0, 1], which is 0 for a single category; the only failure is
\* the shape error of a p_null that does not broadcast against the samples.
C9_MalformedAmended ==
    /\ StatisticReturned =>
          /\ HasZeroOverZero(x, n, p) => ret = NaN
          /\ (HasZeroExpected(n, p) /\ ~HasZeroOverZero(x, n, p)) => ret = Inf
          /\ AllExpectPositive(n, p) => (IsFinite(ret) /\ ~FLt(ret, Zero))
    /\ (fn = "power") =>
          /\ pc = "ValueError" => ~Broadcastable(Len(p), Len(p_null))
          /\ pc = "returned" =>
                /\ IsFinite(ret) /\ ~FLt(ret, Zero) /\ ~FLt(One, ret)
                /\ Len(p) = 1 => ret = Zero

C9_Witness ==
    /\ PowerReturned
    /\ Len(p_null) = Len(p)
    /\ HasZeroExpected(n, p_null)
    /\ \E t \in 1..nsim : IsNaN(statistic_sim[t])
    /\ \E t \in 1..nsim : statistic_sim[t] = Inf
    /\ ret = Norm(1, 2)

\* C10 as claimed: every sampled count vector that power scores is scored
\* against a p_null of exactly len(p) entries, whether p_null was defaulted or
\* supplied.
C10_NullLengthMatches ==
    (fn = "power" /\ pc \in {"cdf", "mean", "returned"}) =>
        \A t \in 1..Len(x_sim) : Len(p_null) = Len(x_sim[t])

\* The power curve has been computed.
CurveReturned == fn = "power_curve" /\ pc = "returned"

\* The chi-squared critical value of significance level aa for kk categories:
\* a p-value is below aa exactly when the statistic is above it.
CriticalValue(aa, kk) == Chi2Crit((aa[1] * 1000) \div aa[2], kk - 1)

\* The smallest null probability among the categories the true p can hit.
SmallestNull(pp, pn) ==
    LET Q == {pn[i] : i \in {j \in 1..Len(pp) : pp[j] # Zero}}
    IN  CHOOSE q \in Q : \A r \in Q : ~FLt(r, q)

\* The largest statistic a sample of size m can have: all m draws in the
\* category of smallest null probability q, which gives m (1 - q) / q.
LargestStatistic(m, pp, pn) ==
    LET q == SmallestNull(pp, pn)
    IN  FDiv(FMul(FInt(m), FSub(One, q)), q)

\* No sample of size m can be rejected at level aa.
NothingRejectable(m, aa, pp, pn) ==
    ~FLt(CriticalValue(aa, Len(pp)), LargestStatistic(m, pp, pn))

\* The count vector of a sequence s of draws from kk categories.
CountsOf(s, kk) == [i \in 1..kk |-> Cardinality({j \in 1..Len(s) : s[j] = i})]

RECURSIVE IntPow(_, _)
IntPow(b, e) == IF e = 0 THEN 1 ELSE b * IntPow(b, e - 1)

\* Under the uniform distribution the kk^m sequences of m draws are equally
\* likely: the share of them whose counts exceed the critical value.
RejectedShare(m, aa, kk) ==
    Norm(Cardinality({s \in [1..m -> 1..kk] :
                         FLt(CriticalValue(aa, kk),
                             sum_of_relative_squared_differences(
                                 CountsOf(s, kk), m, Uniform(kk)))}),
         IntPow(kk, m))

\* C6 as claimed: when the true distribution is the null, a trial is rejected
\* with probability alpha, for every n.
C6_FalsePositiveRateIsAlpha ==
    (CurveReturned /\ p = p_null) =>
        \A m \in 1..MaxCurveN : p_reject[m] = alpha

\* C6 as amended: when the true distribution is the null, the probability
\* that a trial is rejected is the multinomial probability of the count
\* vectors whose statistic exceeds the chi-squared critical value, not alpha:
\* it is 0 exactly when n (1 - q) / q does not exceed the critical value (q
\* the smallest null probability), and under the uniform null it is the share
\* of the k^n draw sequences whose counts exceed the critical value.
C6_FalsePositiveRateAmended ==
    (CurveReturned /\ p = p_null) =>
        \A m \in 1..MaxCurveN :
            /\ IsFinite(p_reject[m])
            /\ ~FLt(p_reject[m], Zero) /\ ~FLt(One, p_reject[m])
            /\ p_reject[m] = Zero <=> NothingRejectable(m, alpha, p, p_null)
            /\ p = Uniform(Len(p)) => p_reject[m] = RejectedShare(m, alpha, Len(p))

C6_Witness ==
    /\ CurveReturned
    /\ p = Uniform(4) /\ p_null = Uniform(4) /\ alpha = Norm(1, 20)
    /\ p_reject[2] = Zero
    /\ p_reject[3] = Norm(1, 16)

\* C7 as claimed: away from the null the probability that a trial is rejected
\* does not decrease when n grows.
C7_PowerMonotoneInN ==
    (CurveReturned /\ p # p_null) =>
        \A n1, n2 \in 1..MaxCurveN :
            n1 <= n2 => ~FLt(p_reject[n2], p_reject[n1])

\* C7 as amended: away from the null the probability that a trial is rejected
\* is 0 for every n so small that no sample can be rejected
\* (n (1 - q) / q not above the critical value) and positive for every larger
\* n; it is non-decreasing from such a small n1 to any n2 >= n1, and not in
\* general between larger sample sizes.
C7_PowerMonotoneAmended ==
    (CurveReturned /\ p # p_null) =>
        \A n1 \in 1..MaxCurveN :
            /\ NothingRejectable(n1, alpha, p, p_null) =>
                  /\ p_reject[n1] = Zero
                  /\ \A n2 \in n1..MaxCurveN : ~FLt(p_reject[n2], p_reject[n1])
            /\ ~NothingRejectable(n1, alpha, p, p_null) => FLt(Zero, p_reject[n1])

C7_Witness ==
    /\ CurveReturned
    /\ p = Skew(2) /\ p_null = Uniform(2) /\ alpha = Norm(1, 20)
    /\ p_reject[3] = Zero
    /\ p_reject[4] = Norm(17, 81)
    /\ p_reject[5] = Norm(11, 81)

\* C11: when power has returned, a trial whose statistic is NaN has a NaN
\* p-value and is not among the trials counted: the returned value is the
\* number of trials with a defined statistic and a p-value strictly below
\* alpha, divided by nsim, and so a number in [0, 1] and never NaN, whether
\* some, all or none of the statistics are NaN.
C11_NaNTrialsNotCounted ==
    PowerReturned =>
        /\ \A t \in 1..nsim : IsNaN(statistic_sim[t]) => IsNaN(pvalue_sim[t])
        /\ ret[1] * nsim =
              ret[2] * Cardinality({t \in 1..nsim :
                                       /\ ~IsNaN(statistic_sim[t])
                                       /\ StrictlyBelow(pvalue_sim[t], alpha)})
        /\ (\A t \in 1..nsim : IsNaN(statistic_sim[t])) => ret = Zero
        /\ ~IsNaN(ret) /\ IsFinite(ret) /\ ~FLt(ret, Zero) /\ ~FLt(One, ret)

\* One trial drew a count of 0 in a category of expected count 0 (statistic
\* NaN), the other trial was rejected: power returned 1/2.
C11_Witness ==
    /\ PowerReturned
    /\ nsim = 2
    /\ alpha = Norm(1, 20)
    /\ \E t \in 1..nsim :
          /\ IsNaN(statistic_sim[t])
          /\ \E i \in 1..Len(p_null) : p_null[i] = Zero /\ x_sim[t][i] = 0
    /\ \E t \in 1..nsim : ~IsNaN(statistic_sim[t]) /\ StrictlyBelow(pvalue_sim[t], alpha)
    /\ ret = Norm(1, 2)

====
